---- MODULE Spec2Model ----
(***************************************************************************)
(* Model of prompt_toolkit/layout/controls.py: BufferControl's content     *)
(* construction (create_content, the memoizing per-line resolver, the      *)
(* lexer cache), its preferred height and its mouse handler; UIContent's   *)
(* indexing and line heights; TokenListControl's token cache, content      *)
(* cache and mouse handler; DummyControl.                                  *)
(*                                                                         *)
(* Conventions: offsets, rows and columns are 0-based as in the source;    *)
(* a text is a sequence of one-character strings.  Python's None is -1 in  *)
(* integer-valued fields, except _last_click_timestamp where it is 0       *)
(* (the source tests it by truthiness).  The clock counts units of .3      *)
(* seconds.                                                                *)
(***************************************************************************)
EXTENDS Integers, Sequences, FiniteSets, TLC

VARIABLES
    text,                       \* buffer.text
    cursor_position,            \* buffer.cursor_position
    selection_state,            \* buffer.selection_state.original_cursor_position, or None
    complete_state,             \* buffer.complete_state.original_document.cursor_position, or None
    current_control,            \* app.layout.current_control == self
    focus_on_click,             \* self.focus_on_click(app)
    menu_position,              \* self.menu_position: MenuUnset, or what the callback returns
    input_processor,            \* display columns the transform chain currently inserts before a line
    _last_click_timestamp,      \* self._last_click_timestamp
    _last_get_processed_line,   \* self._last_get_processed_line (the closure: document, width, cache)
    _token_cache,               \* self._token_cache: keys of the SimpleCache, oldest first
    content,                    \* the UIContent returned by the latest create_content
    render,                     \* instrumentation of the latest create_content call
    last,                       \* the latest operation, its inputs and its return value
    token_list_control,         \* a TokenListControl: _tokens, _token_cache, _content_cache
    token_list_content,         \* the UIContent its latest create_content returned
    get_tokens,                 \* the token list its get_tokens callback returns now
    render_counter              \* app.render_counter

vars == <<text, cursor_position, selection_state, complete_state, current_control,
          focus_on_click, menu_position, input_processor, _last_click_timestamp,
          _last_get_processed_line, _token_cache, content, render, last,
          token_list_control, token_list_content, get_tokens, render_counter>>

\* The fields of the BufferControl and of what is around it, and those of the
\* TokenListControl.
buffer_control_vars ==
    <<text, cursor_position, selection_state, complete_state, current_control,
      focus_on_click, menu_position, input_processor, _last_click_timestamp,
      _last_get_processed_line, _token_cache, content, render>>

token_list_vars == <<token_list_control, token_list_content, get_tokens, render_counter>>

----------------------------------------------------------------------------
(* Bounds of the model.                                                    *)

MaxY == 1           \* mouse rows are 0..MaxY
MaxX == 2           \* mouse columns are 0..MaxX
MaxTime == 2        \* clock readings are 1..MaxTime
MaxShift == 1       \* the transform chain inserts 0..MaxShift columns
MaxWidth == 2       \* render widths are 1..MaxWidth
MaxCalls == 2       \* the per-line call counter saturates here
MaxLen == 3         \* measured strings have 0..MaxLen characters
MaxRenderCounter == 2   \* app.render_counter is 0..MaxRenderCounter

None == -1
MenuUnset == -2     \* self.menu_position is None (no callback configured)

Min(a, b) == IF a < b THEN a ELSE b
Max(a, b) == IF a > b THEN a ELSE b
Abs(a) == IF a < 0 THEN -a ELSE a
SetMin(S) == CHOOSE m \in S : \A n \in S : m <= n

----------------------------------------------------------------------------
(* The documents of the model.                                             *)

TextAbcDef == <<"a", "b", "c", "\n", "d", "e", "f">>
TextHello == <<"h", "e", "l", "l", "o">>
TextPunct == <<"a", "b", "\n", ".", "c", " ">>
TextHelloAbcd == <<"h", "e", "l", "l", "o", " ", "a", "b", "c", "d">>
TextHel == <<"h", "e", "l">>
Texts == {TextAbcDef, TextHello, TextPunct, TextHelloAbcd, TextHel}

\* Line indexes, and the inputs the operations are driven with: the first and
\* the last row, no transformation and the widest one, the narrowest and the
\* widest window, every clock tick.
Rows == 0 .. MaxY
RowInputs == {0, MaxY}
Shifts == {0, MaxShift}
Widths == {1, MaxWidth}
Times == 1 .. MaxTime
EventTypes == {"MOUSE_DOWN", "MOUSE_UP", "SCROLL_UP", "SCROLL_DOWN"}

Document(t, c) == [text |-> t, cursor_position |-> c]
AllDocuments == UNION {{Document(t, c) : c \in 0 .. Len(t)} : t \in Texts}

----------------------------------------------------------------------------
(* Document: rows, columns and offsets.  A document keeps the offsets at   *)
(* which its lines start; they are tabulated here for the model's texts.   *)

\* Number of line breaks among the first n characters of t.
NewlinesBefore(t, n) == Cardinality({k \in 1 .. Min(n, Len(t)) : t[k] = "\n"})

\* Offsets at which the lines of each text start: 0, and after every line break.
line_start_indexes ==
    [t \in Texts |->
        [k \in 1 .. NewlinesBefore(t, Len(t)) + 1 |->
            IF k = 1 THEN 0
            ELSE CHOOSE p \in 1 .. Len(t) : t[p] = "\n" /\ NewlinesBefore(t, p) = k - 1]]

line_count(t) == Len(line_start_indexes[t])

\* Offset at which line `row` starts (row < line_count(t)).
line_start_index(t, row) == line_start_indexes[t][row + 1]

\* Offset just past the last character of line `row`.
line_end_index(t, row) ==
    IF row + 1 = line_count(t) THEN Len(t) ELSE line_start_index(t, row + 1) - 1

line_length(t, row) == line_end_index(t, row) - line_start_index(t, row)

line_text(t, row) == SubSeq(t, line_start_index(t, row) + 1, line_end_index(t, row))

\* Row of an offset: the last line that starts at or before it.
find_line_start_index(t, index) ==
    Cardinality({k \in 1 .. line_count(t) : line_start_indexes[t][k] <= index}) - 1

cursor_position_row(d) == find_line_start_index(d.text, d.cursor_position)

cursor_position_col(d) ==
    d.cursor_position - line_start_index(d.text, cursor_position_row(d))

\* (row, col) of an offset.
translate_index_to_position(t, index) ==
    LET row == find_line_start_index(t, index)
    IN  [row |-> row, col |-> index - line_start_index(t, row)]

\* Offset of (row, col): a row past the end is the last row, the column is
\* clamped to the line and the result to the text.
translate_row_col_to_index(t, row, col) ==
    LET r == IF row < line_count(t) THEN row ELSE line_count(t) - 1
        result == line_start_index(t, r) + Max(0, Min(col, line_length(t, r)))
    IN  Max(0, Min(result, Len(t)))

----------------------------------------------------------------------------
(* Document: the word under the cursor.                                    *)

WordChars == {"a", "b", "c", "d", "e", "f", "h", "l", "o"}
SpaceChars == {" ", "\n"}

CharClass(ch) ==
    IF ch \in WordChars THEN "word"
    ELSE IF ch \in SpaceChars THEN "space" ELSE "punct"

Reverse(s) == [k \in 1 .. Len(s) |-> s[Len(s) + 1 - k]]

\* Length of the match of ^([a-zA-Z0-9_]+|[^a-zA-Z0-9_\s]+) on s; 0 is no match.
FindCurrentWordMatch(s) ==
    IF s = <<>> \/ CharClass(s[1]) = "space" THEN 0
    ELSE LET other == {k \in 1 .. Len(s) : CharClass(s[k]) # CharClass(s[1])}
         IN  IF other = {} THEN Len(s) ELSE SetMin(other) - 1

\* Boundaries of the word under the cursor of d, relative to the cursor.
CurrentWord(d) ==
    LET t == d.text
        c == d.cursor_position
        row == cursor_position_row(d)
        before == Reverse(SubSeq(t, line_start_index(t, row) + 1, c))
        after == SubSeq(t, c + 1, line_end_index(t, row))
        match_before == FindCurrentWordMatch(before)
        match_after == FindCurrentWordMatch(after)
        drop == /\ match_before > 0
                /\ match_after > 0
                /\ (t[c] \in WordChars) # (t[c + 1] \in WordChars)
    IN  [start |-> IF drop THEN 0 ELSE 0 - match_before, end |-> match_after]

\* The same, tabulated for the model's documents.
current_word_boundaries == [d \in AllDocuments |-> CurrentWord(d)]

find_boundaries_of_current_word(d) == current_word_boundaries[d]

----------------------------------------------------------------------------
(* SimpleCache: a dictionary with a queue of its keys; a miss runs the     *)
(* getter, stores the value and drops the oldest key above maxsize.        *)

simple_cache_get(keys, maxsize, key) ==
    IF \E k \in 1 .. Len(keys) : keys[k] = key
    THEN [keys |-> keys, miss |-> FALSE]
    ELSE LET appended == Append(keys, key)
         IN  [keys |-> IF Len(appended) > maxsize THEN Tail(appended) ELSE appended,
              miss |-> TRUE]

TokenCacheMaxSize == 8

\* As get_tokens_for_line_func, but the cache is never consulted.
get_tokens_for_line_func_uncached(cache, document) ==
    [keys |-> simple_cache_get(cache, TokenCacheMaxSize, document.text).keys,
     miss |-> TRUE]

\* As get_tokens_for_line_func, but the cache is keyed by the whole document.
get_tokens_for_line_func_by_document(cache, document) ==
    simple_cache_get(cache, TokenCacheMaxSize, document)

\* The lexer is looked up by document.text; `miss` tells that lex_document ran.
get_tokens_for_line_func(cache, document) ==
    simple_cache_get(cache, TokenCacheMaxSize, document.text)

\* SimpleLexer: one (Token, line) pair per line, tabulated for the model's texts.
lexed_lines ==
    [t \in Texts |-> [k \in 1 .. line_count(t) |-> <<"Token", line_text(t, k - 1)>>]]

\* The tokens of line `lineno`; nothing past the last line.
lex_document(t, lineno) ==
    IF lineno < line_count(t) THEN <<lexed_lines[t][lineno + 1]>> ELSE <<>>

----------------------------------------------------------------------------
(* ProcessedLine.  The transform chain of the model inserts `shift`        *)
(* display columns before the line, so a ProcessedLine is known by its     *)
(* shift: tokens, source_to_display and display_to_source follow from it.  *)

ProcessedLineTokens(t, lineno, shift) ==
    [k \in 1 .. shift |-> <<"Token.Prompt", <<">">>>>] \o lex_document(t, lineno)

source_to_display(shift, i) == i + shift

display_to_source(shift, x) == x - shift

\* transform(lineno, tokens): what the chain yields when applied now.
transform(lineno) == input_processor

NoRows == [i \in Rows |-> None]
NoTokens == [i \in Rows |-> <<>>]

\* The record of a create_content call: its document and width, whether the
\* call before it had the same ones, whether the lexer ran, and the lines the
\* closure of that call before it had memoized.
NoRender ==
    [document |-> Document(<<>>, 0), width |-> 0, same |-> FALSE,
     lexed |-> FALSE, prev |-> {}]

NoResolver ==
    [valid |-> FALSE, document |-> Document(<<>>, 0), width |-> 0,
     cache |-> NoRows, tokens |-> NoTokens,
     calls |-> [i \in Rows |-> 0], seen |-> [i \in Rows |-> {}],
     born |-> NoRender]

\* The closure returned by _create_get_processed_line_func, with an empty cache.
\* cache[i] is the shift and tokens[i] the token list of the ProcessedLine
\* memoized for line i; calls[i] counts the transform invocations for line i,
\* seen[i] collects the ProcessedLines handed out for line i, and born is the
\* record of the create_content call the closure was built in.
create_func(document, width) ==
    [valid |-> TRUE, document |-> document, width |-> width,
     cache |-> NoRows, tokens |-> NoTokens,
     calls |-> [i \in Rows |-> 0], seen |-> [i \in Rows |-> {}],
     born |-> NoRender]

\* As get_processed_line, but the line is transformed on every request.
get_processed_line_unmemoized(r, i) ==
    LET processed_line == transform(i)
    IN  [r EXCEPT !.cache[i] = processed_line,
                  !.tokens[i] = ProcessedLineTokens(r.document.text, i, processed_line),
                  !.calls[i] = Min(@ + 1, MaxCalls),
                  !.seen[i] = @ \cup {processed_line}]

\* get_processed_line(i) on closure r: the closure afterwards; the line it
\* returns is cache[i] of the result.
get_processed_line(r, i) ==
    IF r.cache[i] # None
    THEN [r EXCEPT !.seen[i] = @ \cup {r.cache[i]}]
    ELSE LET processed_line == transform(i)
         IN  [r EXCEPT !.cache[i] = processed_line,
                       !.tokens[i] = ProcessedLineTokens(r.document.text, i, processed_line),
                       !.calls[i] = Min(@ + 1, MaxCalls),
                       !.seen[i] = @ \cup {processed_line}]

----------------------------------------------------------------------------
(* UIContent: line heights.  A height is kept in two limbs, hi * Limb + lo, *)
(* as the source's integers are unbounded and 10 ** 10 is among them.      *)

Limb == 10 ^ 5

BigOf(n) == [hi |-> n \div Limb, lo |-> n % Limb]

BigGeq(a, b) == a.hi > b.hi \/ (a.hi = b.hi /\ a.lo >= b.lo)

\* A character of two cells, and one of no cell (a combining or control character).
WideChars == {"W"}
ZeroWidthChars == {"^"}

CharWidth(ch) == IF ch \in WideChars THEN 2 ELSE IF ch \in ZeroWidthChars THEN 0 ELSE 1

\* get_cwidth(string): the cells the string takes on the terminal.
RECURSIVE get_cwidth(_)
get_cwidth(string) ==
    IF string = <<>> THEN 0 ELSE CharWidth(Head(string)) + get_cwidth(Tail(string))

\* token_list_to_text(tokens): the texts of the (Token, text) pairs, joined.
RECURSIVE token_list_to_text(_)
token_list_to_text(tokens) ==
    IF tokens = <<>> THEN <<>> ELSE Head(tokens)[2] \o token_list_to_text(Tail(tokens))

VeryBig == [hi |-> Limb, lo |-> 0]      \* 10 ** 10

\* As get_height_for_text, but the quotient is not rounded up.
get_height_for_text_floor(string, width) ==
    IF width = 0 THEN VeryBig
    ELSE BigOf(Max(1, get_cwidth(string) \div width))

\* As get_height_for_text, but a width of zero yields one row.
get_height_for_text_zero_width(string, width) ==
    IF width = 0 THEN BigOf(1)
    ELSE LET line_width == get_cwidth(string)
             quotient == line_width \div width
             remainder == line_width % width
         IN  BigOf(Max(1, IF remainder # 0 THEN quotient + 1 ELSE quotient))

\* UIContent.get_height_for_text(text, width)
get_height_for_text(string, width) ==
    IF width = 0 THEN VeryBig
    ELSE LET line_width == get_cwidth(string)
             quotient == line_width \div width
             remainder == line_width % width
         IN  BigOf(Max(1, IF remainder # 0 THEN quotient + 1 ELSE quotient))

----------------------------------------------------------------------------
(* create_content                                                          *)

Point(px, py) == [x |-> px, y |-> py]
NoPoint == Point(None, None)

Blank == <<"Token", <<" ">>>>

\* As get_line, but the blank cell is appended to the memoized list itself.
get_line_in_place(r, i) ==
    LET r1 == get_processed_line(r, i)
        tokens == Append(r1.tokens[i], Blank)
    IN  [resolver |-> [r1 EXCEPT !.tokens[i] = tokens], tokens |-> tokens]

\* As get_line, but only the line of the cursor gets the blank cell.
get_line_cursor_line(r, i) ==
    LET r1 == get_processed_line(r, i)
    IN  [resolver |-> r1,
         tokens |-> IF i = cursor_position_row(r.document)
                    THEN r1.tokens[i] \o <<Blank>> ELSE r1.tokens[i]]

\* get_line(i) of the content built on closure r: the closure afterwards and
\* the tokens returned.
get_line(r, i) ==
    LET r1 == get_processed_line(r, i)
    IN  [resolver |-> r1, tokens |-> r1.tokens[i] \o <<Blank>>]

NoLines == [i \in Rows |-> {}]
NoHeights == [k \in {} |-> BigOf(0)]

\* measured[lineno, width] of a content counts the get_line calls that
\* get_height_for_line has made for this line and width.
Measure(measured, key) ==
    IF key \in DOMAIN measured THEN [measured EXCEPT ![key] = Min(@ + 1, MaxCalls)]
    ELSE measured @@ (key :> 1)

\* As get_height_for_line, but the height is computed on every call.
get_height_for_line_unmemoized(c, r, lineno, width) ==
    LET line == get_line(r, lineno)
        result == get_height_for_text(token_list_to_text(line.tokens), width)
    IN  [content |-> [c EXCEPT !._line_heights = (<<lineno, width>> :> result) @@ @,
                               !.lines[lineno] = @ \cup {line.tokens},
                               !.measured = Measure(@, <<lineno, width>>)],
         resolver |-> line.resolver,
         height |-> result,
         calls |-> 1]

\* content.get_height_for_line(lineno, width) on content c over closure r:
\* content and closure afterwards, the height returned, and the number of
\* get_line calls made.
get_height_for_line(c, r, lineno, width) ==
    IF <<lineno, width>> \in DOMAIN c._line_heights
    THEN [content |-> c, resolver |-> r, height |-> c._line_heights[<<lineno, width>>],
          calls |-> 0]
    ELSE LET line == get_line(r, lineno)
             result == get_height_for_text(token_list_to_text(line.tokens), width)
         IN  [content |-> [c EXCEPT !._line_heights = @ @@ (<<lineno, width>> :> result),
                                    !.lines[lineno] = @ \cup {line.tokens},
                                    !.measured = Measure(@, <<lineno, width>>)],
              resolver |-> line.resolver,
              height |-> result,
              calls |-> 1]

\* As translate_rowcol, but the column is left in source space.
translate_rowcol_source(r, row, col) == Point(col, row)

\* translate_rowcol(row, col) evaluated on closure r.
translate_rowcol(r, row, col) ==
    Point(source_to_display(get_processed_line(r, row).cache[row], col), row)

\* As menu_anchor, but without the test of the focus.
menu_anchor_unfocussed(focussed, callback, cursor, completing) ==
    IF callback >= 0 THEN callback
    ELSE IF completing # None THEN Min(cursor, completing)
    ELSE None

\* As menu_anchor, but a completion anchors the menu where it started.
menu_anchor_original_cursor(focussed, callback, cursor, completing) ==
    IF ~focussed THEN None
    ELSE IF callback >= 0 THEN callback
    ELSE completing

\* The source offset the menu is anchored at, or None.
menu_anchor(focussed, callback, cursor, completing) ==
    IF ~focussed THEN None
    ELSE IF callback >= 0 THEN callback
    ELSE IF completing # None THEN Min(cursor, completing)
    ELSE None

\* lines[i] collects what get_line(i) has returned on this content.
NoContent ==
    [valid |-> FALSE, line_count |-> 0, cursor_position |-> Point(0, 0),
     menu_position |-> NoPoint, _line_heights |-> NoHeights, lines |-> NoLines,
     measured |-> [k \in {} |-> 0]]

NoLast ==
    [op |-> "init", event_type |-> "", y |-> 0, x |-> 0, ret |-> "",
     focussed |-> FALSE, rendered |-> FALSE, index |-> None,
     had_selection |-> FALSE, rule_cursor |-> None, rule_selection |-> None,
     double_click |-> FALSE, width |-> None, line |-> <<>>, string |-> <<>>,
     height |-> BigOf(0), handler |-> "", miss |-> FALSE, lineno |-> <<>>,
     calls |-> 0]

\* As create_content, but self._last_get_processed_line is only set when
\* there is none yet.
create_content_first_resolver(width, document) ==
    LET lexer == get_tokens_for_line_func(_token_cache, document)
        old == _last_get_processed_line
        same == old.valid /\ old.document = document /\ old.width = width
        call == [document |-> document, width |-> width, same |-> same,
                 lexed |-> lexer.miss,
                 prev |-> IF same THEN {i \in Rows : old.cache[i] # None} ELSE {}]
        r0 == [create_func(document, width) EXCEPT !.born = call]
        row == cursor_position_row(document)
        r1 == get_processed_line(r0, row)
        anchor == menu_anchor(current_control, menu_position, cursor_position,
                              complete_state)
        menu == translate_index_to_position(text, anchor)
        r2 == IF anchor = None THEN r1 ELSE get_processed_line(r1, menu.row)
    IN  [_token_cache |-> lexer.keys,
         _last_get_processed_line |-> IF old.valid THEN old ELSE r2,
         content |->
             [valid |-> TRUE,
              line_count |-> line_count(document.text),
              cursor_position |-> translate_rowcol(r0, row, cursor_position_col(document)),
              menu_position |-> IF anchor = None THEN NoPoint
                                ELSE translate_rowcol(r1, menu.row, menu.col),
              _line_heights |-> NoHeights,
              lines |-> NoLines,
              measured |-> [k \in {} |-> 0]],
         render |-> call]

\* create_content(app, width, height) on the resolved document: what it leaves
\* in self._token_cache and self._last_get_processed_line, the content it
\* returns, and the record of the call.
create_content(width, document) ==
    LET lexer == get_tokens_for_line_func(_token_cache, document)
        old == _last_get_processed_line
        same == old.valid /\ old.document = document /\ old.width = width
        call == [document |-> document, width |-> width, same |-> same,
                 lexed |-> lexer.miss,
                 prev |-> IF same THEN {i \in Rows : old.cache[i] # None} ELSE {}]
        r0 == [create_func(document, width) EXCEPT !.born = call]
        row == cursor_position_row(document)
        r1 == get_processed_line(r0, row)
        anchor == menu_anchor(current_control, menu_position, cursor_position,
                              complete_state)
        menu == translate_index_to_position(text, anchor)
        r2 == IF anchor = None THEN r1 ELSE get_processed_line(r1, menu.row)
    IN  [_token_cache |-> lexer.keys,
         _last_get_processed_line |-> r2,
         content |->
             [valid |-> TRUE,
              line_count |-> line_count(document.text),
              cursor_position |-> translate_rowcol(r0, row, cursor_position_col(document)),
              menu_position |-> IF anchor = None THEN NoPoint
                                ELSE translate_rowcol(r1, menu.row, menu.col),
              _line_heights |-> NoHeights,
              lines |-> NoLines,
              measured |-> [k \in {} |-> 0]],
         render |-> call]

CreateContent(width, document) ==
    /\ UNCHANGED token_list_vars
    /\ \E created \in {create_content(width, document)} :
           /\ _token_cache' = created._token_cache
           /\ _last_get_processed_line' = created._last_get_processed_line
           /\ content' = created.content
           /\ render' = created.render
    /\ last' = [NoLast EXCEPT !.op = "create_content", !.ret = "content"]
    /\ UNCHANGED <<text, cursor_position, selection_state, complete_state,
                   current_control, focus_on_click, menu_position,
                   input_processor, _last_click_timestamp>>

\* content.get_line(i) on the latest content, for i below its line_count.
GetLine(i) ==
    /\ UNCHANGED token_list_vars
    /\ content.valid
    /\ i < content.line_count
    /\ \E line \in {get_line(_last_get_processed_line, i)} :
           /\ _last_get_processed_line' = line.resolver
           /\ content' = [content EXCEPT !.lines[i] = @ \cup {line.tokens}]
           /\ last' = [NoLast EXCEPT !.op = "get_line", !.y = i, !.ret = "tokens",
                                     !.line = line.tokens]
    /\ UNCHANGED <<text, cursor_position, selection_state, complete_state,
                   current_control, focus_on_click, menu_position, input_processor,
                   _last_click_timestamp, _token_cache, render>>

\* A line number or line count of any size is kept as its limbs that are not
\* 0: the number is the sum of a[k] * LineLimb ^ k over the k of DOMAIN a.
LineLimb == 10 ^ 4

LimbsZero == [k \in {} |-> 0]

LimbAt(a, k) == IF k \in DOMAIN a THEN a[k] ELSE 0

LimbsSet(a, k, v) ==
    [j \in (DOMAIN a \ {k}) \cup (IF v = 0 THEN {} ELSE {k}) |-> IF j = k THEN v ELSE a[j]]

\* a + v * LineLimb ^ k
RECURSIVE LimbsAddAt(_, _, _)
LimbsAddAt(a, k, v) ==
    LET d == LimbAt(a, k) + v
    IN  IF d < LineLimb THEN LimbsSet(a, k, d)
        ELSE LimbsAddAt(LimbsSet(a, k, d % LineLimb), k + 1, d \div LineLimb)

Limbs(n) == LimbsAddAt(LimbsZero, 0, n)

\* a < b
LimbsLess(a, b) ==
    \E k \in DOMAIN b :
        /\ LimbAt(a, k) < b[k]
        /\ \A j \in DOMAIN a \cup DOMAIN b : j > k => LimbAt(a, j) = LimbAt(b, j)

\* As __getitem__, but the line count itself is taken for a line number.
getitem_inclusive(line_count_limbs, lineno) ==
    IF ~LimbsLess(line_count_limbs, lineno) THEN "get_line" ELSE "IndexError"

\* content[lineno] on a content of this line count: get_line(lineno) is called
\* and its result returned, or IndexError is raised.
__getitem__(line_count_limbs, lineno) ==
    IF LimbsLess(lineno, line_count_limbs) THEN "get_line" ELSE "IndexError"

\* content[i] on the latest content.
GetItem(i) ==
    /\ UNCHANGED token_list_vars
    /\ content.valid
    /\ \E outcome \in {__getitem__(Limbs(content.line_count), Limbs(i))} :
           IF outcome = "get_line"
           THEN \E line \in {get_line(_last_get_processed_line, i)} :
                    /\ _last_get_processed_line' = line.resolver
                    /\ content' = [content EXCEPT !.lines[i] = @ \cup {line.tokens}]
                    /\ last' = [NoLast EXCEPT !.op = "getitem", !.y = i,
                                              !.lineno = Limbs(i), !.ret = "tokens",
                                              !.line = line.tokens, !.calls = 1]
           ELSE /\ last' = [NoLast EXCEPT !.op = "getitem", !.y = i,
                                          !.lineno = Limbs(i), !.ret = "IndexError"]
                /\ UNCHANGED <<_last_get_processed_line, content>>
    /\ UNCHANGED <<text, cursor_position, selection_state, complete_state,
                   current_control, focus_on_click, menu_position, input_processor,
                   _last_click_timestamp, _token_cache, render>>

\* content.get_height_for_line(i, width) on the latest content, for i below its
\* line_count.
GetHeightForLine(i, width) ==
    /\ UNCHANGED token_list_vars
    /\ content.valid
    /\ i < content.line_count
    /\ \E got \in {get_height_for_line(content, _last_get_processed_line, i, width)} :
           /\ _last_get_processed_line' = got.resolver
           /\ content' = got.content
           /\ last' = [NoLast EXCEPT !.op = "get_height_for_line", !.y = i,
                                     !.width = width, !.ret = "height",
                                     !.height = got.height, !.calls = got.calls]
    /\ UNCHANGED <<text, cursor_position, selection_state, complete_state,
                   current_control, focus_on_click, menu_position, input_processor,
                   _last_click_timestamp, _token_cache, render>>

\* The static method applied to a string and a width.
GetHeightForText(string, width) ==
    /\ UNCHANGED token_list_vars
    /\ last' = [NoLast EXCEPT !.op = "get_height_for_text", !.string = string,
                              !.width = width, !.ret = "height",
                              !.height = get_height_for_text(string, width)]
    /\ UNCHANGED <<text, cursor_position, selection_state, complete_state,
                   current_control, focus_on_click, menu_position, input_processor,
                   _last_click_timestamp, _last_get_processed_line, _token_cache,
                   content, render>>

BigAdd(a, b) ==
    [hi |-> a.hi + b.hi + (a.lo + b.lo) \div Limb, lo |-> (a.lo + b.lo) % Limb]

\* As the loop of preferred_height, but the sum is not cut at
\* max_available_height.
RECURSIVE preferred_height_lines_uncapped(_, _, _, _, _, _)
preferred_height_lines_uncapped(c, r, i, height, width, max_available_height) ==
    IF i >= c.line_count
    THEN [content |-> c, resolver |-> r, height |-> height]
    ELSE LET got == get_height_for_line(c, r, i, width)
         IN  preferred_height_lines_uncapped(got.content, got.resolver, i + 1,
                                             BigAdd(height, got.height), width,
                                             max_available_height)

\* The loop of preferred_height from line i on, `height` rows counted so far.
RECURSIVE preferred_height_lines(_, _, _, _, _, _)
preferred_height_lines(c, r, i, height, width, max_available_height) ==
    IF i >= c.line_count
    THEN [content |-> c, resolver |-> r, height |-> height]
    ELSE LET got == get_height_for_line(c, r, i, width)
             sum == BigAdd(height, got.height)
         IN  IF BigGeq(sum, BigOf(max_available_height))
             THEN [content |-> got.content, resolver |-> got.resolver,
                   height |-> BigOf(max_available_height)]
             ELSE preferred_height_lines(got.content, got.resolver, i + 1, sum, width,
                                         max_available_height)

\* preferred_height(app, width, max_available_height, wrap_lines)
PreferredHeight(width, max_available_height, wrap_lines) ==
    /\ UNCHANGED token_list_vars
    /\ \E created \in {create_content(width, Document(text, cursor_position))} :
       \E c \in {created.content} :
       \E counted \in
           {IF ~wrap_lines
            THEN [content |-> c, resolver |-> created._last_get_processed_line,
                  height |-> BigOf(c.line_count)]
            ELSE IF c.line_count >= max_available_height
            THEN [content |-> c, resolver |-> created._last_get_processed_line,
                  height |-> BigOf(max_available_height)]
            ELSE preferred_height_lines(c, created._last_get_processed_line, 0, BigOf(0),
                                        width, max_available_height)} :
           /\ _token_cache' = created._token_cache
           /\ _last_get_processed_line' = counted.resolver
           /\ content' = counted.content
           /\ render' = created.render
           /\ last' = [NoLast EXCEPT !.op = "preferred_height", !.width = width,
                                     !.x = max_available_height,
                                     !.ret = IF wrap_lines THEN "wrapped" ELSE "line_count",
                                     !.height = counted.height]
    /\ UNCHANGED <<text, cursor_position, selection_state, complete_state,
                   current_control, focus_on_click, menu_position,
                   input_processor, _last_click_timestamp>>

----------------------------------------------------------------------------
(* Buffer operations used by the mouse handler, on the record              *)
(* [cursor_position, selection_state, complete_state].                     *)

Buffer == [cursor_position |-> cursor_position, selection_state |-> selection_state,
           complete_state |-> complete_state]

\* buffer.cursor_position = value: a change of the cursor ends the completion.
set_cursor_position(b, value) ==
    [b EXCEPT !.cursor_position = Max(0, value),
              !.complete_state = IF value # b.cursor_position THEN None ELSE @]

exit_selection(b) == [b EXCEPT !.selection_state = None]

start_selection(b) == [b EXCEPT !.selection_state = b.cursor_position]

----------------------------------------------------------------------------
(* mouse_handler                                                           *)

DoubleClickWindow == 1      \* .3 seconds, in clock units

\* As mouse_down, but the selection is kept.
mouse_down_keep_selection(b, index) == set_cursor_position(b, index)

\* MOUSE_DOWN at the resolved offset.
mouse_down(b, index) == set_cursor_position(exit_selection(b), index)

\* As mouse_up_select, but any move of the cursor selects.
mouse_up_select_any_move(b, index) ==
    IF Abs(b.cursor_position - index) > 0
    THEN set_cursor_position(start_selection(b), index)
    ELSE b

\* MOUSE_UP, first rule: select when the cursor was moved to another place.
mouse_up_select(b, index) ==
    IF Abs(b.cursor_position - index) > 1
    THEN set_cursor_position(start_selection(b), index)
    ELSE b

\* Two MOUSE_UP events in a short timespan.
is_double_click(timestamp, now) == timestamp # 0 /\ now - timestamp < DoubleClickWindow

\* As select_word, but the selection starts at the cursor, not at the word's start.
select_word_from_cursor(b, t) ==
    LET word == find_boundaries_of_current_word(Document(t, b.cursor_position))
    IN  set_cursor_position(start_selection(b), b.cursor_position + word.end)

\* MOUSE_UP, on a double click: select the word around the buffer's cursor.
select_word(b, t) ==
    LET word == find_boundaries_of_current_word(Document(t, b.cursor_position))
        b1 == set_cursor_position(b, b.cursor_position + word.start)
        b2 == start_selection(b1)
    IN  set_cursor_position(b2, b2.cursor_position + word.end - word.start)

\* As locate_click, but the display column is taken for the source column.
locate_click_display(r, t, y, x) == translate_row_col_to_index(t, y, x)

\* The offset a click at display (y, x) resolves to, on closure r (which holds
\* line y) and the buffer's text t.
locate_click(r, t, y, x) ==
    translate_row_col_to_index(t, y, display_to_source(r.cache[y], x))

\* As focus_by_click, but on every event type.
focus_by_click_any_event(policy, event_type) == policy

\* The branch taken when the control is not focussed: does it take the focus?
focus_by_click(policy, event_type) == policy /\ event_type = "MOUSE_UP"

\* mouse_handler(app, mouse_event); `now` is what the clock reads on a release
\* (it does not run backwards) and is not looked at on other events.
MouseHandler(event_type, y, x, now) ==
    LET double_click == is_double_click(_last_click_timestamp, now)
        base == [NoLast EXCEPT !.op = "mouse_handler", !.event_type = event_type,
                               !.focussed = current_control,
                               !.rendered = _last_get_processed_line.valid]
    IN  /\ UNCHANGED token_list_vars
        /\ event_type = "MOUSE_UP" => now >= _last_click_timestamp
        /\ IF current_control
           THEN IF _last_get_processed_line.valid
                THEN \E r \in {get_processed_line(_last_get_processed_line, y)} :
                     \E index \in {locate_click(r, text, y, x)} :
                     \E selected \in {mouse_up_select(Buffer, index)} :
                     \E b \in {IF event_type = "MOUSE_DOWN" THEN mouse_down(Buffer, index)
                               ELSE IF event_type # "MOUSE_UP" THEN Buffer
                               ELSE IF double_click THEN select_word(selected, text)
                               ELSE selected} :
                     \E located \in {[base EXCEPT !.y = y, !.x = x, !.index = index,
                                                  !.had_selection = selection_state # None]} :
                         /\ _last_get_processed_line' = r
                         /\ cursor_position' = b.cursor_position
                         /\ selection_state' = b.selection_state
                         /\ complete_state' = b.complete_state
                         /\ _last_click_timestamp' =
                              IF event_type = "MOUSE_UP" THEN now ELSE _last_click_timestamp
                         /\ last' =
                              IF event_type = "MOUSE_UP"
                              THEN [located EXCEPT !.ret = "None",
                                                   !.rule_cursor = selected.cursor_position,
                                                   !.rule_selection = selected.selection_state,
                                                   !.double_click = double_click]
                              ELSE IF event_type = "MOUSE_DOWN"
                              THEN [located EXCEPT !.ret = "None"]
                              ELSE [located EXCEPT !.ret = "NotImplemented"]
                         /\ UNCHANGED current_control
                ELSE /\ last' = [base EXCEPT !.ret = "None"]
                     /\ UNCHANGED <<cursor_position, selection_state, complete_state,
                                    current_control, _last_click_timestamp,
                                    _last_get_processed_line>>
           ELSE /\ current_control' = focus_by_click(focus_on_click, event_type)
                /\ last' = [base EXCEPT !.ret = IF focus_by_click(focus_on_click, event_type)
                                                THEN "None" ELSE "NotImplemented"]
                /\ UNCHANGED <<cursor_position, selection_state, complete_state,
                               _last_click_timestamp, _last_get_processed_line>>
        /\ UNCHANGED <<text, focus_on_click, menu_position, input_processor,
                       _token_cache, content, render>>

----------------------------------------------------------------------------
(* The environment of the control.                                         *)

Environment(op) == [NoLast EXCEPT !.op = op]

\* The buffer gets a new document (editing, history, reset).
SetDocument(d) ==
    /\ UNCHANGED token_list_vars
    /\ Document(text, cursor_position) # d
    /\ text' = d.text
    /\ cursor_position' = d.cursor_position
    /\ selection_state' = None
    /\ complete_state' = None
    /\ last' = Environment("set_document")
    /\ UNCHANGED <<current_control, focus_on_click, menu_position, input_processor,
                   _last_click_timestamp, _last_get_processed_line, _token_cache,
                   content, render>>

\* A completion starts: the buffer remembers the document it started from.
StartCompletion ==
    /\ UNCHANGED token_list_vars
    /\ complete_state = None
    /\ complete_state' = cursor_position
    /\ last' = Environment("start_completion")
    /\ UNCHANGED <<text, cursor_position, selection_state, current_control,
                   focus_on_click, menu_position, input_processor,
                   _last_click_timestamp, _last_get_processed_line, _token_cache,
                   content, render>>

\* A completion is applied: text and cursor change, the completion stays active.
GoToCompletion(d) ==
    /\ UNCHANGED token_list_vars
    /\ complete_state # None
    /\ Document(text, cursor_position) # d
    /\ text' = d.text
    /\ cursor_position' = d.cursor_position
    /\ selection_state' = None
    /\ last' = Environment("go_to_completion")
    /\ UNCHANGED <<complete_state, current_control, focus_on_click, menu_position,
                   input_processor, _last_click_timestamp, _last_get_processed_line,
                   _token_cache, content, render>>

\* The layout moves the focus to or away from this control.
SetFocus(focussed) ==
    /\ UNCHANGED token_list_vars
    /\ current_control # focussed
    /\ current_control' = focussed
    /\ last' = Environment("set_focus")
    /\ UNCHANGED <<text, cursor_position, selection_state, complete_state,
                   focus_on_click, menu_position, input_processor,
                   _last_click_timestamp, _last_get_processed_line, _token_cache,
                   content, render>>

\* The transform chain starts to behave differently (a conditional processor).
SetInputProcessor(shift) ==
    /\ UNCHANGED token_list_vars
    /\ input_processor # shift
    /\ input_processor' = shift
    /\ last' = Environment("set_input_processor")
    /\ UNCHANGED <<text, cursor_position, selection_state, complete_state,
                   current_control, focus_on_click, menu_position,
                   _last_click_timestamp, _last_get_processed_line, _token_cache,
                   content, render>>

----------------------------------------------------------------------------
(* TokenListControl.  An item of a token list is <<token, text>> or        *)
(* <<token, text, handler>>; a handler is known by its name.               *)

\* SimpleCache.get(key, getter_func) on the entries <<[key, value], ...>>,
\* oldest first; `value` is what the getter would return.
simple_cache(entries, maxsize, key, value) ==
    IF \E k \in 1 .. Len(entries) : entries[k].key = key
    THEN [entries |-> entries,
          value |-> entries[CHOOSE k \in 1 .. Len(entries) : entries[k].key = key].value,
          miss |-> FALSE]
    ELSE LET appended == Append(entries, [key |-> key, value |-> value])
         IN  [entries |-> IF Len(appended) > maxsize THEN Tail(appended) ELSE appended,
              value |-> value,
              miss |-> TRUE]

TokenListTokenCacheMaxSize == 1
ContentCacheMaxSize == 18

RenderCounters == 0 .. MaxRenderCounter

\* self._tokens: None, or a token list.
NoTokenList == <<>>
Some(tokens) == <<tokens>>

\* calls[c] counts the get_tokens calls made under render counter c, passes
\* collects the counters under which an operation ran.
NewTokenListControl ==
    [_tokens |-> NoTokenList, _token_cache |-> <<>>, _content_cache |-> <<>>,
     calls |-> [c \in RenderCounters |-> 0], passes |-> {}]

NoTokenListContent ==
    [valid |-> FALSE, line_count |-> 0, cursor_position |-> Point(0, 0),
     menu_position |-> NoPoint, token_lines |-> <<>>]

\* string.split('\n')
RECURSIVE Split(_)
Split(string) ==
    IF \A k \in 1 .. Len(string) : string[k] # "\n" THEN <<string>>
    ELSE LET p == SetMin({k \in 1 .. Len(string) : string[k] = "\n"})
         IN  <<SubSeq(string, 1, p - 1)>> \o Split(SubSeq(string, p + 1, Len(string)))

WithText(item, part) == [item EXCEPT ![2] = part]

\* split_lines(tokenlist), `line` being the line under construction: a part
\* before a line break ends a line (an empty part adds no item), the part after
\* the last line break starts the next one, and the last line is always there.
RECURSIVE split_lines_from(_, _)
split_lines_from(tokenlist, line) ==
    IF tokenlist = <<>> THEN <<line>>
    ELSE LET item == Head(tokenlist)
             parts == Split(item[2])
             n == Len(parts)
             Piece(k) == IF parts[k] # <<>> THEN <<WithText(item, parts[k])>> ELSE <<>>
         IN  IF n = 1
             THEN split_lines_from(Tail(tokenlist), Append(line, item))
             ELSE <<line \o Piece(1)>> \o [k \in 1 .. n - 2 |-> Piece(k + 1)]
                      \o split_lines_from(Tail(tokenlist), <<WithText(item, parts[n])>>)

split_lines(tokenlist) == split_lines_from(tokenlist, <<>>)

\* [tuple(item[:2]) for item in line], for every line
StripMouseHandlers(lines) ==
    [y \in 1 .. Len(lines) |-> [k \in 1 .. Len(lines[y]) |-> SubSeq(lines[y][k], 1, 2)]]

\* As _get_tokens_cached, but get_tokens is called every time.
_get_tokens_uncached(tl, counter, tokens) ==
    [tl EXCEPT !._token_cache = <<[key |-> counter, value |-> tokens]>>,
               !.calls[counter] = Min(@ + 1, MaxCalls),
               !.passes = @ \cup {counter}]

\* _get_tokens_cached(app), `tokens` being what get_tokens(app) returns: the
\* control afterwards; the tokens it returns are the value of the one entry of
\* _token_cache.
_get_tokens_cached(tl, counter, tokens) ==
    LET got == simple_cache(tl._token_cache, TokenListTokenCacheMaxSize, counter, tokens)
    IN  [tl EXCEPT !._token_cache = got.entries,
                   !.calls[counter] = IF got.miss THEN Min(@ + 1, MaxCalls) ELSE @,
                   !.passes = @ \cup {counter}]

CachedTokens(tl) == tl._token_cache[Len(tl._token_cache)].value

\* The text length of the first k items of a line.
RECURSIVE TextLength(_, _)
TextLength(line, k) == IF k = 0 THEN 0 ELSE TextLength(line, k - 1) + Len(line[k][2])

\* As get_cursor_position, but the column counts the items before the token.
get_cursor_position_items(token_lines, token) ==
    LET Holds(y) == \E k \in 1 .. Len(token_lines[y]) : token_lines[y][k][1] = token
        rows == {y \in 1 .. Len(token_lines) : Holds(y)}
    IN  IF rows = {} THEN NoPoint
        ELSE LET y == SetMin(rows)
                 k == SetMin({j \in 1 .. Len(token_lines[y]) : token_lines[y][j][1] = token})
             IN  Point(k - 1, y - 1)

\* get_cursor_position(token): the first item with this token, line by line,
\* at the text length of the items before it on its line; NoPoint for None.
get_cursor_position(token_lines, token) ==
    LET Holds(y) == \E k \in 1 .. Len(token_lines[y]) : token_lines[y][k][1] = token
        rows == {y \in 1 .. Len(token_lines) : Holds(y)}
    IN  IF rows = {} THEN NoPoint
        ELSE LET y == SetMin(rows)
                 k == SetMin({j \in 1 .. Len(token_lines[y]) : token_lines[y][j][1] = token})
             IN  Point(TextLength(token_lines[y], k - 1), y - 1)

\* The UIContent get_content() builds from the lines without mouse handlers.
get_content(token_lines) ==
    LET cursor == get_cursor_position(token_lines, "Token.SetCursorPosition")
    IN  [valid |-> TRUE,
         line_count |-> Len(token_lines),
         cursor_position |-> IF cursor = NoPoint THEN Point(0, 0) ELSE cursor,
         menu_position |-> get_cursor_position(token_lines, "Token.SetMenuPosition"),
         token_lines |-> token_lines]

\* As create_content, but the key of the content cache is the width alone.
token_list_create_content_by_width(tl, counter, tokens, width) ==
    LET tl1 == _get_tokens_cached(tl, counter, tokens)
        tokens_with_mouse_handlers == CachedTokens(tl1)
        token_lines == StripMouseHandlers(split_lines(tokens_with_mouse_handlers))
        got == simple_cache(tl1._content_cache, ContentCacheMaxSize,
                            <<(<<>>), width>>, get_content(token_lines))
    IN  [control |-> [tl1 EXCEPT !._tokens = Some(tokens_with_mouse_handlers),
                                 !._content_cache = got.entries],
         content |-> got.value,
         miss |-> got.miss]

\* TokenListControl.create_content(app, width, height): the control afterwards,
\* the content returned, and whether get_content() had to build it.
token_list_create_content(tl, counter, tokens, width) ==
    LET tl1 == _get_tokens_cached(tl, counter, tokens)
        tokens_with_mouse_handlers == CachedTokens(tl1)
        token_lines == StripMouseHandlers(split_lines(tokens_with_mouse_handlers))
        got == simple_cache(tl1._content_cache, ContentCacheMaxSize,
                            <<tokens_with_mouse_handlers, width>>, get_content(token_lines))
    IN  [control |-> [tl1 EXCEPT !._tokens = Some(tokens_with_mouse_handlers),
                                 !._content_cache = got.entries],
         content |-> got.value,
         miss |-> got.miss]

\* The handlers of the model return None, or NotImplemented.
HandlerReturn(handler) == IF handler = "unhandled" THEN "NotImplemented" ELSE "None"

\* The loop of mouse_handler over the items of the clicked line from item k on,
\* `count` characters counted so far: the handler it calls, "" for none.
RECURSIVE find_mouse_handler(_, _, _, _)
find_mouse_handler(tokens, k, count, xpos) ==
    IF k > Len(tokens) THEN ""
    ELSE IF count + Len(tokens[k][2]) >= xpos
    THEN IF Len(tokens[k]) >= 3 THEN tokens[k][3] ELSE ""
    ELSE find_mouse_handler(tokens, k + 1, count + Len(tokens[k][2]), xpos)

\* The handler mouse_handler calls for a click at (y, x), "" for none.
token_list_mouse_handler(tl, y, x) ==
    IF tl._tokens = NoTokenList \/ tl._tokens[1] = <<>> THEN ""
    ELSE LET tokens_for_line == split_lines(tl._tokens[1])
         IN  IF y >= Len(tokens_for_line) THEN ""
             ELSE find_mouse_handler(tokens_for_line[y + 1], 1, 0, x)

TokenListCreateContent(width) ==
    /\ \E created \in {token_list_create_content(token_list_control, render_counter,
                                                get_tokens, width)} :
           /\ token_list_control' = created.control
           /\ token_list_content' = created.content
           /\ last' = [NoLast EXCEPT !.op = "token_list.create_content",
                                     !.width = width, !.ret = "content",
                                     !.miss = created.miss]
    /\ UNCHANGED <<get_tokens, render_counter>>
    /\ UNCHANGED buffer_control_vars

\* preferred_width(app, max_available_width): the width of the longest line.
TokenListPreferredWidth ==
    /\ \E tl \in {_get_tokens_cached(token_list_control, render_counter, get_tokens)} :
           /\ token_list_control' = tl
           /\ last' = [NoLast EXCEPT
                  !.op = "token_list.preferred_width", !.ret = "width",
                  !.width = LET lines == Split(token_list_to_text(CachedTokens(tl)))
                            IN  CHOOSE w \in {get_cwidth(lines[k]) : k \in 1 .. Len(lines)} :
                                    \A k \in 1 .. Len(lines) : get_cwidth(lines[k]) <= w]
    /\ UNCHANGED <<token_list_content, get_tokens, render_counter>>
    /\ UNCHANGED buffer_control_vars

\* preferred_height(app, width, max_available_height, wrap_lines)
TokenListPreferredHeight(width) ==
    /\ \E created \in {token_list_create_content(token_list_control, render_counter,
                                                get_tokens, width)} :
           /\ token_list_control' = created.control
           /\ last' = [NoLast EXCEPT !.op = "token_list.preferred_height",
                                     !.width = width, !.ret = "line_count",
                                     !.height = BigOf(created.content.line_count)]
    /\ UNCHANGED <<token_list_content, get_tokens, render_counter>>
    /\ UNCHANGED buffer_control_vars

\* mouse_handler(app, mouse_event) for an event at (y, x)
TokenListMouseHandler(y, x) ==
    /\ \E handler \in {token_list_mouse_handler(token_list_control, y, x)} :
           last' = [NoLast EXCEPT !.op = "token_list.mouse_handler", !.y = y, !.x = x,
                                  !.handler = handler,
                                  !.ret = IF handler = "" THEN "NotImplemented"
                                          ELSE HandlerReturn(handler)]
    /\ UNCHANGED token_list_vars
    /\ UNCHANGED buffer_control_vars

TokenListReset ==
    /\ token_list_control' = [token_list_control EXCEPT !._tokens = NoTokenList]
    /\ last' = [NoLast EXCEPT !.op = "token_list.reset"]
    /\ UNCHANGED <<token_list_content, get_tokens, render_counter>>
    /\ UNCHANGED buffer_control_vars

\* The renderer starts the next pass.
NextRenderPass ==
    /\ render_counter < MaxRenderCounter
    /\ render_counter' = render_counter + 1
    /\ last' = Environment("render_pass")
    /\ UNCHANGED <<token_list_control, token_list_content, get_tokens>>
    /\ UNCHANGED buffer_control_vars

\* The callback starts to return another token list.
SetTokens(tokens) ==
    /\ get_tokens # tokens
    /\ get_tokens' = tokens
    /\ last' = Environment("set_tokens")
    /\ UNCHANGED <<token_list_control, token_list_content, render_counter>>
    /\ UNCHANGED buffer_control_vars

----------------------------------------------------------------------------
(* DummyControl.                                                           *)

\* acc + the sum of a[p[1]] * b[p[2]] * LineLimb ^ (p[1] + p[2]) over the pairs p
RECURSIVE LimbsTimesPairs(_, _, _, _)
LimbsTimesPairs(acc, a, b, pairs) ==
    IF pairs = {} THEN acc
    ELSE LET p == CHOOSE q \in pairs : TRUE
         IN  LimbsTimesPairs(LimbsAddAt(acc, p[1] + p[2], a[p[1]] * b[p[2]]), a, b,
                             pairs \ {p})

\* a * b
LimbsTimes(a, b) == LimbsTimesPairs(LimbsZero, a, b, (DOMAIN a) \X (DOMAIN b))

\* base ** e, by squaring
RECURSIVE LimbsPower(_, _)
LimbsPower(base, e) ==
    IF e = 0 THEN Limbs(1)
    ELSE LET half == LimbsPower(base, e \div 2)
             square == LimbsTimes(half, half)
         IN  IF e % 2 = 1 THEN LimbsTimes(square, base) ELSE square

\* The get_line of DummyControl.create_content.
dummy_get_line(i) == <<>>

\* DummyControl.create_content(app, width, height)
dummy_create_content ==
    [valid |-> TRUE, line_count |-> LimbsPower(Limbs(100), 100),
     cursor_position |-> Point(0, 0), menu_position |-> NoPoint]

\* DummyControl.is_focussable(app)
dummy_is_focussable == FALSE

\* create_content(app, width, height)[lineno] on a DummyControl.
DummyGetItem(lineno) ==
    /\ \E outcome \in {__getitem__(dummy_create_content.line_count, lineno)} :
           last' = IF outcome = "get_line"
                   THEN [NoLast EXCEPT !.op = "dummy.getitem", !.lineno = lineno,
                                       !.ret = "tokens", !.line = dummy_get_line(lineno),
                                       !.calls = 1]
                   ELSE [NoLast EXCEPT !.op = "dummy.getitem", !.lineno = lineno,
                                       !.ret = "IndexError"]
    /\ UNCHANGED token_list_vars
    /\ UNCHANGED buffer_control_vars

DummyIsFocussable ==
    /\ last' = [NoLast EXCEPT !.op = "dummy.is_focussable", !.ret = "bool",
                              !.focussed = dummy_is_focussable]
    /\ UNCHANGED token_list_vars
    /\ UNCHANGED buffer_control_vars

----------------------------------------------------------------------------
(* Specifications.                                                         *)

MenuOffsets == {2}
MenuCallbacks == {MenuUnset, None} \cup MenuOffsets

\* A TokenListControl after construction, before the first render pass.
InitTokenListControl ==
    /\ token_list_control = NewTokenListControl
    /\ token_list_content = NoTokenListContent
    /\ render_counter = 0

\* A BufferControl after construction.
InitBufferControl ==
    /\ selection_state = None
    /\ complete_state = None
    /\ _last_click_timestamp = 0
    /\ _last_get_processed_line = NoResolver
    /\ _token_cache = <<>>
    /\ content = NoContent
    /\ render = NoRender
    /\ last = NoLast

\* Both controls after construction, the TokenListControl showing nothing.
InitControl ==
    /\ InitBufferControl
    /\ InitTokenListControl
    /\ get_tokens = <<>>

\* Token lists: two adjacent items with handlers; an item without and one with
\* a handler; sentinels on two lines, each of them twice; and no item at all.
TokensHandlers == <<(<<"Token", <<"a">>, "handled">>), (<<"Token", <<"b">>, "unhandled">>)>>
TokensMixed == <<(<<"Token", <<"a">>>>), (<<"Token", <<"b">>, "handled">>)>>
TokensSentinels ==
    <<(<<"Token", <<"a", "b">>>>), (<<"Token.SetCursorPosition", <<>>>>),
      (<<"Token", <<"\n">>>>), (<<"Token", <<"c">>>>), (<<"Token.SetMenuPosition", <<>>>>),
      (<<"Token.SetCursorPosition", <<>>>>), (<<"Token.SetMenuPosition", <<>>>>)>>
TokenLists == {<<>>, TokensHandlers, TokensMixed, TokensSentinels}

\* The render side of a TokenListControl: widths, contents and heights asked
\* for while the render counter goes up and the callback's token list changes.
InitTokenList ==
    /\ InitBufferControl
    /\ InitTokenListControl
    /\ get_tokens \in TokenLists
    /\ text = TextHello
    /\ cursor_position = 0
    /\ current_control = FALSE
    /\ focus_on_click = FALSE
    /\ menu_position = MenuUnset
    /\ input_processor = 0

NextTokenList ==
    \/ TokenListCreateContent(MaxWidth)
    \/ TokenListPreferredWidth
    \/ TokenListPreferredHeight(MaxWidth)
    \/ NextRenderPass
    \/ \E tokens \in TokenLists : SetTokens(tokens)

SpecTokenList == InitTokenList /\ [][NextTokenList]_vars

\* Clicks on a TokenListControl: every cell of the lines and the cells around
\* them, before the first content, after it and after a reset.
NextTokenClick ==
    \/ TokenListCreateContent(MaxWidth)
    \/ \E y \in Rows, x \in 0 .. MaxX : TokenListMouseHandler(y, x)
    \/ TokenListReset
    \/ NextRenderPass

SpecTokenClick == InitTokenList /\ [][NextTokenClick]_vars

\* The content cache of a TokenListControl: contents asked for at every width
\* while the callback goes back and forth between two token lists, pass after
\* pass.
CachedTokenLists == {TokensMixed, TokensSentinels}

InitTokenCache ==
    /\ InitTokenList
    /\ get_tokens \in CachedTokenLists

NextTokenCache ==
    \/ \E width \in Widths : TokenListCreateContent(width)
    \/ \E width \in Widths : TokenListPreferredHeight(width)
    \/ NextRenderPass
    \/ \E tokens \in CachedTokenLists : SetTokens(tokens)

SpecTokenCache == InitTokenCache /\ [][NextTokenCache]_vars

\* Render passes and their caches: every width, the buffer's document or a
\* search preview, lookups through get_line and through the mouse handler.
RenderDocuments ==
    {Document(TextAbcDef, 1), Document(TextAbcDef, 5), Document(TextHello, 2)}
SearchDocuments == {Document(TextAbcDef, 4)}

InitRender ==
    /\ InitControl
    /\ \E d \in RenderDocuments : text = d.text /\ cursor_position = d.cursor_position
    /\ current_control \in BOOLEAN
    /\ focus_on_click = FALSE
    /\ menu_position = MenuUnset
    /\ input_processor \in Shifts

NextRender ==
    \/ \E w \in Widths : CreateContent(w, Document(text, cursor_position))
    \/ \E w \in Widths, d \in SearchDocuments : CreateContent(w, d)
    \/ \E w \in Widths : PreferredHeight(w, 1, TRUE)
    \/ \E i \in RowInputs : GetLine(i)
    \/ \E e \in {"SCROLL_UP", "SCROLL_DOWN"}, y \in RowInputs : MouseHandler(e, y, 0, 0)
    \/ \E d \in RenderDocuments : SetDocument(d)
    \/ \E s \in Shifts : SetInputProcessor(s)

SpecRender == InitRender /\ [][NextRender]_vars

\* Presses between render passes on a focussed control: every pass, made by
\* create_content or by preferred_height, may differ from the one before it
\* in the document (the press moves the cursor), the width and the input
\* processor.
FocusColumns == {0, MaxX}

InitPass ==
    /\ InitControl
    /\ \E d \in RenderDocuments : text = d.text /\ cursor_position = d.cursor_position
    /\ current_control = TRUE
    /\ focus_on_click = FALSE
    /\ menu_position = MenuUnset
    /\ input_processor \in Shifts

NextPass ==
    \/ \E w \in Widths : CreateContent(w, Document(text, cursor_position))
    \/ \E w \in Widths : PreferredHeight(w, 1, TRUE)
    \/ \E y \in RowInputs, x \in FocusColumns : MouseHandler("MOUSE_DOWN", y, x, 0)
    \/ \E s \in Shifts : SetInputProcessor(s)

SpecPass == InitPass /\ [][NextPass]_vars

\* The content of one render pass: focus, menu callback, completion and
\* search preview vary, the width does not.
InitContent ==
    /\ InitControl
    /\ \E d \in RenderDocuments : text = d.text /\ cursor_position = d.cursor_position
    /\ current_control \in BOOLEAN
    /\ focus_on_click = FALSE
    /\ menu_position \in MenuCallbacks
    /\ input_processor \in Shifts

NextContent ==
    \/ CreateContent(MaxWidth, Document(text, cursor_position))
    \/ \E d \in SearchDocuments : CreateContent(MaxWidth, d)
    \/ \E d \in RenderDocuments : SetDocument(d)
    \/ StartCompletion
    \/ \E d \in RenderDocuments : GoToCompletion(d)
    \/ \E f \in BOOLEAN : SetFocus(f)
    \/ \E s \in Shifts : SetInputProcessor(s)

SpecContent == InitContent /\ [][NextContent]_vars

\* Completions: a completion starts at the end of a text and then replaces it
\* by a shorter or a longer one; no callback yields a menu offset.
CompletionDocuments ==
    {Document(TextHelloAbcd, 10), Document(TextHel, 3), Document(TextAbcDef, 5)}

InitCompletion ==
    /\ InitControl
    /\ \E d \in CompletionDocuments : text = d.text /\ cursor_position = d.cursor_position
    /\ current_control \in BOOLEAN
    /\ focus_on_click = FALSE
    /\ menu_position \in {MenuUnset, None}
    /\ input_processor \in Shifts

NextCompletion ==
    \/ CreateContent(MaxWidth, Document(text, cursor_position))
    \/ \E d \in CompletionDocuments : SetDocument(d)
    \/ StartCompletion
    \/ \E d \in CompletionDocuments : GoToCompletion(d)
    \/ \E f \in BOOLEAN : SetFocus(f)
    \/ \E s \in Shifts : SetInputProcessor(s)

SpecCompletion == InitCompletion /\ [][NextCompletion]_vars

\* The lines of a content: get_line, get_height_for_line and the mouse handler
\* on the content of the latest pass, while the transform chain changes.
HeightWidths == {0, MaxWidth}
MaxAvailableHeights == {1, 2 * MaxWidth}

InitLines ==
    /\ InitControl
    /\ \E d \in RenderDocuments : text = d.text /\ cursor_position = d.cursor_position
    /\ current_control = TRUE
    /\ focus_on_click = FALSE
    /\ menu_position = MenuUnset
    /\ input_processor \in Shifts

NextLines ==
    \/ \E w \in Widths : CreateContent(w, Document(text, cursor_position))
    \/ \E m \in MaxAvailableHeights, wrap \in BOOLEAN : PreferredHeight(MaxWidth, m, wrap)
    \/ \E i \in RowInputs : GetLine(i)
    \/ \E i \in RowInputs, w \in HeightWidths : GetHeightForLine(i, w)
    \/ \E y \in RowInputs : MouseHandler("SCROLL_UP", y, 0, 0)
    \/ \E s \in Shifts : SetInputProcessor(s)

SpecLines == InitLines /\ [][NextLines]_vars

\* Contents indexed line by line: the BufferControl's content at its first
\* line and at line MaxY, which a document of one line does not have, and a
\* DummyControl's content at both ends of its lines and past them.
\* 100 ** 100 is 10 ** 200, that is LineLimb ^ 50; the number before it has
\* fifty limbs of LineLimb - 1.
HundredToTheHundred == [k \in {50} |-> 1]
DummyLastLine == [k \in 0 .. 49 |-> LineLimb - 1]
DummyBelow == {Limbs(0), Limbs(MaxY), DummyLastLine}
DummyPast == {HundredToTheHundred, LimbsAddAt(HundredToTheHundred, 0, MaxY),
              LimbsTimes(HundredToTheHundred, Limbs(MaxY + 1))}

NextIndex ==
    \/ \E w \in Widths : CreateContent(w, Document(text, cursor_position))
    \/ \E i \in RowInputs : GetItem(i)
    \/ \E lineno \in DummyBelow \cup DummyPast : DummyGetItem(lineno)
    \/ DummyIsFocussable
    \/ \E s \in Shifts : SetInputProcessor(s)

SpecIndex == InitLines /\ [][NextIndex]_vars

\* The height of a string: every string of up to MaxLen characters of one,
\* two or no cells, at every width from 0 on.
HeightChars == {"a"} \cup WideChars \cup ZeroWidthChars
HeightStrings == UNION {[1 .. n -> HeightChars] : n \in 0 .. MaxLen}
TextWidths == 0 .. MaxWidth + 1

InitHeight ==
    /\ InitControl
    /\ text = TextHello
    /\ cursor_position = 0
    /\ current_control = FALSE
    /\ focus_on_click = FALSE
    /\ menu_position = MenuUnset
    /\ input_processor = 0

NextHeight == \E string \in HeightStrings, w \in TextWidths : GetHeightForText(string, w)

SpecHeight == InitHeight /\ [][NextHeight]_vars

\* Clicks on a focussed control: presses and releases at every position and
\* clock reading, on every cursor of one text.
MouseDocuments == {Document(TextPunct, c) : c \in 0 .. Len(TextPunct)}

InitMouse ==
    /\ InitControl
    /\ \E d \in MouseDocuments : text = d.text /\ cursor_position = d.cursor_position
    /\ current_control = TRUE
    /\ focus_on_click = FALSE
    /\ menu_position = MenuUnset
    /\ input_processor \in Shifts

NextMouse ==
    \/ CreateContent(MaxWidth, Document(text, cursor_position))
    \/ \E y \in RowInputs, x \in 0 .. MaxX : MouseHandler("MOUSE_DOWN", y, x, 0)
    \/ \E y \in RowInputs, x \in 0 .. MaxX, now \in Times : MouseHandler("MOUSE_UP", y, x, now)

SpecMouse == InitMouse /\ [][NextMouse]_vars

\* Focus and event types: every event type, with and without focus, with and
\* without the focus-on-click policy, before and after a render pass.
InitFocus ==
    /\ InitControl
    /\ text = TextPunct
    /\ cursor_position = 0
    /\ current_control \in BOOLEAN
    /\ focus_on_click \in BOOLEAN
    /\ menu_position = MenuUnset
    /\ input_processor = 0

NextFocus ==
    \/ CreateContent(MaxWidth, Document(text, cursor_position))
    \/ \E e \in EventTypes \ {"MOUSE_UP"}, y \in RowInputs, x \in FocusColumns :
           MouseHandler(e, y, x, 0)
    \/ \E y \in RowInputs, x \in FocusColumns, now \in Times :
           MouseHandler("MOUSE_UP", y, x, now)
    \/ SetFocus(FALSE)

SpecFocus == InitFocus /\ [][NextFocus]_vars

----------------------------------------------------------------------------
(* Properties.                                                             *)

Resolver == _last_get_processed_line
ScrollTypes == {"SCROLL_UP", "SCROLL_DOWN"}
Located == last.op = "mouse_handler" /\ last.focussed /\ last.rendered

C2_OncePerLine ==
    \A i \in Rows :
        /\ Resolver.calls[i] <= 1
        /\ Cardinality(Resolver.seen[i]) <= 1

\* The mouse handler asks for the line create_content resolved for the cursor,
\* after the transform chain has changed its behaviour.
C2_Witness ==
    /\ Located
    /\ last.y = cursor_position_row(render.document)
    /\ Resolver.cache[last.y] # input_processor
    /\ Resolver.calls[last.y] = 1

\* C3: on a focussed control a scroll event returns NotImplemented and leaves
\* cursor, selection, focus and click timestamp alone, rendered or not.
C3_ScrollUnhandled ==
    [][(last'.op = "mouse_handler" /\ current_control
            /\ last'.event_type \in ScrollTypes) =>
        /\ last'.ret = "NotImplemented"
        /\ UNCHANGED <<cursor_position, selection_state, current_control,
                       _last_click_timestamp>>]_vars

\* C4 as stated: after a double click the selection runs from the start to the
\* end of the word around the resolved click offset.
C4_WordAroundClick ==
    (Located /\ last.event_type = "MOUSE_UP" /\ last.double_click) =>
        LET word == find_boundaries_of_current_word(Document(text, last.index))
        IN  /\ selection_state = last.index + word.start
            /\ cursor_position = last.index + word.end

\* C4 amended: after a double click the selection runs from the start to the
\* end of the word around the buffer's cursor as the first release rule left
\* it, which is the resolved click offset or a position one away from it.
C4_WordAroundCursor ==
    (Located /\ last.event_type = "MOUSE_UP" /\ last.double_click) =>
        LET word == find_boundaries_of_current_word(Document(text, last.rule_cursor))
        IN  /\ Abs(last.rule_cursor - last.index) <= 1
            /\ selection_state = last.rule_cursor + word.start
            /\ cursor_position = last.rule_cursor + word.end

\* A double click that selected a word of two characters.
C4_Witness ==
    /\ Located
    /\ last.event_type = "MOUSE_UP"
    /\ last.double_click
    /\ selection_state # None
    /\ cursor_position - selection_state = 2

\* C5: a release more than one away from the cursor starts a selection at the
\* cursor and moves the cursor to the resolved offset; a release at most one
\* away starts no selection and moves nothing.  (Without a double click this
\* is the state the handler leaves.)
C5_ReleaseRule ==
    [][(last'.op = "mouse_handler" /\ last'.event_type = "MOUSE_UP"
            /\ current_control /\ Resolver.valid) =>
        /\ IF Abs(cursor_position - last'.index) > 1
           THEN /\ last'.rule_selection = cursor_position
                /\ last'.rule_cursor = last'.index
           ELSE /\ last'.rule_selection = selection_state
                /\ last'.rule_cursor = cursor_position
        /\ ~last'.double_click =>
               /\ cursor_position' = last'.rule_cursor
               /\ selection_state' = last'.rule_selection]_vars

\* A release that started a selection, and no double click after it.
C5_Witness ==
    /\ Located
    /\ last.event_type = "MOUSE_UP"
    /\ ~last.double_click
    /\ ~last.had_selection
    /\ selection_state # None
    /\ Abs(selection_state - cursor_position) > 1
    /\ cursor_position = last.index

\* C6: a press on a focussed, rendered control leaves no selection and the
\* cursor on the resolved offset.
C6_Press ==
    (Located /\ last.event_type = "MOUSE_DOWN") =>
        /\ selection_state = None
        /\ cursor_position = last.index

\* A press that cleared a selection.
C6_Witness ==
    /\ Located
    /\ last.event_type = "MOUSE_DOWN"
    /\ last.had_selection
    /\ selection_state = None

\* C7: without focus, a release under the focus-on-click policy takes the
\* focus and is consumed, any other event is unhandled and the focus stays;
\* cursor, selection and click timestamp are unchanged in both cases.
C7_Unfocussed ==
    [][(last'.op = "mouse_handler" /\ ~current_control) =>
        /\ IF focus_on_click /\ last'.event_type = "MOUSE_UP"
           THEN current_control' /\ last'.ret = "None"
           ELSE ~current_control' /\ last'.ret = "NotImplemented"
        /\ UNCHANGED <<cursor_position, selection_state, _last_click_timestamp>>]_vars

\* A release that took the focus, on a buffer that holds a selection and a
\* click timestamp.
C7_Witness ==
    /\ last.op = "mouse_handler"
    /\ ~last.focussed
    /\ last.event_type = "MOUSE_UP"
    /\ last.ret = "None"
    /\ current_control
    /\ selection_state # None
    /\ _last_click_timestamp # 0

\* C8: a click at display (y, x) resolves to the offset of row y and the
\* column display_to_source(x) of line y's ProcessedLine, the row clamped to
\* the text's rows and the column to the line; with the identity map a click
\* at (0, 2) on a line of two or more characters resolves to 2.
C8_LocateClick ==
    Located =>
        LET row == Min(last.y, line_count(text) - 1)
            col == last.x - Resolver.cache[last.y]
        IN  /\ last.index = line_start_index(text, row)
                              + Max(0, Min(col, line_length(text, row)))
            /\ (last.y = 0 /\ last.x = 2 /\ Resolver.cache[0] = 0
                    /\ line_length(text, 0) >= 2) => last.index = 2

\* A click on the second line, behind one inserted display column.
C8_Witness ==
    /\ Located
    /\ last.y = 1
    /\ last.x = 2
    /\ Resolver.cache[1] = 1
    /\ last.index = line_start_index(text, 1) + 1

\* C9: the content's line_count is the resolved document's, its cursor is at
\* the cursor's row and at source_to_display of that row applied to the
\* cursor's column; "abc\ndef" with the cursor at 1 and the identity map gives
\* Point(x=1, y=0) and two lines.
C9_CursorAndLineCount ==
    content.valid =>
        LET d == render.document
            row == cursor_position_row(d)
        IN  /\ content.line_count = line_count(d.text)
            /\ content.cursor_position.y = row
            /\ content.cursor_position.x = cursor_position_col(d) + Resolver.cache[row]
            /\ (d = Document(TextAbcDef, 1) /\ Resolver.cache[0] = 0) =>
                   /\ content.cursor_position = Point(1, 0)
                   /\ content.line_count = 2

\* The content of a search preview whose cursor is on the second line, behind
\* one inserted display column.
C9_Witness ==
    /\ last.op = "create_content"
    /\ render.document = Document(TextAbcDef, 4)
    /\ render.document # Document(text, cursor_position)
    /\ content.cursor_position = Point(1, 1)
    /\ content.line_count = 2

\* C10: the content has a menu position only if the control is focussed; it
\* has none when the control is not focussed, and none when it is focussed
\* but no callback yields an offset and no completion is active.
C10_MenuNeedsFocus ==
    last.op = "create_content" =>
        /\ content.menu_position # NoPoint => current_control
        /\ (menu_position \in {MenuUnset, None} /\ complete_state = None) =>
               content.menu_position = NoPoint

\* A content built without focus while the callback yields an offset and a
\* completion is active.
C10_Witness ==
    /\ last.op = "create_content"
    /\ ~current_control
    /\ menu_position \in MenuOffsets
    /\ complete_state # None
    /\ content.menu_position = NoPoint

\* C11: on a focussed control without menu callback and with an active
\* completion, the menu is at the display position of the source offset
\* min(cursor offset, cursor offset the completion started from), which never
\* exceeds the cursor offset; started at 10 and now at 3, it is at offset 3.
C11_MenuAtMin ==
    (last.op = "create_content" /\ current_control /\ menu_position = MenuUnset
            /\ complete_state # None) =>
        LET offset == IF cursor_position < complete_state THEN cursor_position
                      ELSE complete_state
            pos == translate_index_to_position(text, offset)
        IN  /\ offset <= cursor_position
            /\ content.menu_position = Point(pos.col + Resolver.cache[pos.row], pos.row)
            /\ (complete_state = 10 /\ cursor_position = 3) =>
                   content.menu_position = Point(3 + Resolver.cache[0], 0)

\* A completion that started at offset 10 and left the cursor at 3, rendered
\* behind one inserted display column.
C11_Witness ==
    /\ last.op = "create_content"
    /\ current_control
    /\ menu_position = MenuUnset
    /\ complete_state = 10
    /\ cursor_position = 3
    /\ content.menu_position = Point(4, 0)

\* C12: on one content, get_line(i) returns the same sequence every time, also
\* between calls of get_height_for_line and of the mouse handler and after the
\* transform chain has changed; the memoized ProcessedLine keeps the tokens the
\* chain gave it.
C12_GetLineStable ==
    content.valid =>
        \A i \in Rows :
            /\ Cardinality(content.lines[i]) <= 1
            /\ Resolver.cache[i] # None =>
                   Resolver.tokens[i] =
                       ProcessedLineTokens(Resolver.document.text, i, Resolver.cache[i])

\* get_line(i) after get_height_for_line had asked for the same line and the
\* transform chain has changed since.
C12_Witness ==
    /\ last.op = "get_line"
    /\ \E w \in HeightWidths : <<last.y, w>> \in DOMAIN content._line_heights
    /\ Resolver.cache[last.y] # input_processor
    /\ content.lines[last.y] = {last.line}

\* C13: get_line(i) is the display segments of line i's ProcessedLine followed
\* by exactly one (Token, " ") segment, on every line.
C13_TrailingBlank ==
    last.op = "get_line" =>
        LET segments == Resolver.tokens[last.y]
        IN  /\ Len(last.line) = Len(segments) + 1
            /\ SubSeq(last.line, 1, Len(segments)) = segments
            /\ last.line[Len(last.line)] = <<"Token", <<" ">>>>

\* get_line on a line that does not hold the cursor.
C13_Witness ==
    /\ last.op = "get_line"
    /\ last.y # cursor_position_row(render.document)
    /\ last.line = <<(<<"Token.Prompt", <<">">>>>), (<<"Token", <<"d", "e", "f">>>>),
                     (<<"Token", <<" ">>>>)>>

\* C14: a render pass whose document has the text of the pass before it does
\* not run the lexer, whatever cursor and width the two passes have, through
\* create_content and through preferred_height.
C14_LexerKeyedByText ==
    [][(last'.op \in {"create_content", "preferred_height"} /\ Resolver.valid
            /\ Resolver.document.text = Resolver'.document.text) =>
        ~render'.lexed]_vars

\* A pass served from the lexer cache whose cursor or width differs from the
\* pass before it; all the passes so far had this text.
C14_Witness ==
    /\ last.op = "preferred_height"
    /\ ~render.lexed
    /\ ~render.same
    /\ Len(_token_cache) = 1
    /\ render.document.cursor_position = 5

\* The least q with q * width >= n, for width >= 1.
Ceil(n, width) == CHOOSE q \in 0 .. n : q * width >= n /\ (q = 0 \/ (q - 1) * width < n)

Measured == last.op = "get_height_for_text"

\* C15 as stated: for a non-empty string and a positive width, the height is
\* at least 1 and is ceil(display_width / width).
C15_HeightIsCeil ==
    (Measured /\ last.string # <<>> /\ last.width >= 1) =>
        /\ BigGeq(last.height, BigOf(1))
        /\ last.height = BigOf(Ceil(get_cwidth(last.string), last.width))

\* C15 amended: for every string and a positive width, the height is the
\* larger of 1 and ceil(display_width / width); it is the ceiling itself when
\* the string takes at least one cell, and 1 when it takes none.
C15_HeightIsCeilOrOne ==
    (Measured /\ last.width >= 1) =>
        LET display_width == get_cwidth(last.string)
            rows == Ceil(display_width, last.width)
        IN  /\ BigGeq(last.height, BigOf(1))
            /\ last.height = BigOf(IF rows > 1 THEN rows ELSE 1)
            /\ display_width >= 1 => last.height = BigOf(rows)
            /\ display_width = 0 => last.height = BigOf(1)

\* A string of three cells, one of its characters taking none, at width 2.
C15_Witness ==
    /\ Measured
    /\ last.string = <<"W", "^", "a">>
    /\ last.width = 2
    /\ last.height = BigOf(2)

\* C16: at width 0 the height is 10 ** 10, which is at least the height of the
\* same string at every width from 1 on.
C16_ZeroWidthSentinel ==
    (Measured /\ last.width = 0) =>
        /\ last.height = VeryBig
        /\ \A w \in TextWidths \ {0} :
               BigGeq(last.height, get_height_for_text(last.string, w))

\* The widest string of the model at width 0; at width 1 it takes 2 * MaxLen rows.
C16_Witness ==
    /\ Measured
    /\ last.width = 0
    /\ get_cwidth(last.string) = 2 * MaxLen
    /\ last.height.hi = Limb

Clicked == last.op = "token_list.mouse_handler"

\* The lines of the token list the control has kept, none when it has kept none.
KeptLines ==
    IF token_list_control._tokens = NoTokenList THEN <<>>
    ELSE IF token_list_control._tokens[1] = <<>> THEN <<>>
    ELSE split_lines(token_list_control._tokens[1])

\* Item k of a line covers column x: the items before it end at or before x
\* and it ends after x.
Covers(line, k, x) == TextLength(line, k - 1) <= x /\ x < TextLength(line, k)

\* C17: a click on a cell of an item that carries a handler calls that item's
\* handler.
C17_HandlerOfClickedItem ==
    (Clicked /\ last.y < Len(KeptLines)) =>
        LET line == KeptLines[last.y + 1]
        IN  \A k \in 1 .. Len(line) :
                (Covers(line, k, last.x) /\ Len(line[k]) >= 3) => last.handler = line[k][3]

\* C18: the value returned is that of the one handler called, and no handler
\* is called and NotImplemented is returned when no token list is kept, when
\* it is empty, when the row is past the last line, when the column is past
\* the end of the line, or when the item at the column carries no handler.
C18_UnhandledOtherwise ==
    Clicked =>
        /\ last.ret = IF last.handler = "" THEN "NotImplemented"
                      ELSE HandlerReturn(last.handler)
        /\ (\/ last.y >= Len(KeptLines)
            \/ last.x >= TextLength(KeptLines[last.y + 1], Len(KeptLines[last.y + 1]))
            \/ \E k \in 1 .. Len(KeptLines[last.y + 1]) :
                   /\ Covers(KeptLines[last.y + 1], k, last.x)
                   /\ Len(KeptLines[last.y + 1][k]) < 3)
               => (last.handler = "" /\ last.ret = "NotImplemented")

\* C19: get_tokens has been called once under every render counter under which
\* preferred_width, preferred_height or create_content ran, and never under
\* another one.
C19_OncePerRenderCounter ==
    \A c \in RenderCounters :
        token_list_control.calls[c] = IF c \in token_list_control.passes THEN 1 ELSE 0

\* A content created in a later pass from the token list of that pass, after
\* the callback has started to return another list.
C19_Witness ==
    /\ last.op = "token_list.create_content"
    /\ Cardinality(token_list_control.passes) >= 2
    /\ token_list_control.calls[render_counter] = 1
    /\ CachedTokens(token_list_control) # get_tokens

\* The text of the first k items of a token list.
RECURSIVE TextBefore(_, _)
TextBefore(tokens, k) == IF k = 0 THEN <<>> ELSE TextBefore(tokens, k - 1) \o tokens[k][2]

\* Where the first item with this token is: the line breaks before it give the
\* row, the characters since the last of them the column.
FirstOccurrence(tokens, token) ==
    LET at == {k \in 1 .. Len(tokens) : tokens[k][1] = token}
    IN  IF at = {} THEN NoPoint
        ELSE LET before == TextBefore(tokens, SetMin(at) - 1)
                 breaks == {j \in 1 .. Len(before) : before[j] = "\n"}
                 row == Cardinality(breaks)
                 col == Len(before) - Cardinality({j \in 1 .. Len(before) :
                                                     \E b \in breaks : j <= b})
             IN  Point(col, row)

\* C20: the content's cursor is where the first Token.SetCursorPosition is and
\* its menu position where the first Token.SetMenuPosition is, the column
\* being the text length of the items before it on its line; without the
\* former the cursor is (0, 0), without the latter there is no menu position.
C20_Sentinels ==
    last.op = "token_list.create_content" =>
        LET tokens == token_list_control._tokens[1]
            cursor == FirstOccurrence(tokens, "Token.SetCursorPosition")
        IN  /\ token_list_content.cursor_position =
                   IF cursor = NoPoint THEN Point(0, 0) ELSE cursor
            /\ token_list_content.menu_position =
                   FirstOccurrence(tokens, "Token.SetMenuPosition")
            /\ tokens = TokensSentinels =>
                   /\ token_list_content.cursor_position = Point(2, 0)
                   /\ token_list_content.menu_position = Point(1, 1)
            /\ tokens = TokensHandlers =>
                   /\ token_list_content.cursor_position = Point(0, 0)
                   /\ token_list_content.menu_position = NoPoint

\* A content with both sentinels, each of them twice in the token list.
C20_Witness ==
    /\ last.op = "token_list.create_content"
    /\ token_list_control._tokens = Some(TokensSentinels)
    /\ token_list_content.cursor_position = Point(2, 0)
    /\ token_list_content.menu_position = Point(1, 1)

\* The content a control without a content cache builds from a token list.
UncachedContent(tokens_with_mouse_handlers) ==
    LET lines == split_lines(tokens_with_mouse_handlers)
        token_lines == [y \in 1 .. Len(lines) |->
                           [k \in 1 .. Len(lines[y]) |-> <<lines[y][k][1], lines[y][k][2]>>]]
        cursor == FirstOccurrence(tokens_with_mouse_handlers, "Token.SetCursorPosition")
    IN  [valid |-> TRUE,
         line_count |-> Len(lines),
         cursor_position |-> IF cursor = NoPoint THEN Point(0, 0) ELSE cursor,
         menu_position |-> FirstOccurrence(tokens_with_mouse_handlers,
                                           "Token.SetMenuPosition"),
         token_lines |-> token_lines]

\* C21: whatever create_content calls came before, with whatever token lists
\* and widths, the content create_content returns, taken from the content cache
\* or built, has the line count, the lines, the cursor position and the menu
\* position of the content an uncached control builds from the token list of
\* this call.
C21_CacheNotVisible ==
    last.op = "token_list.create_content" =>
        token_list_content = UncachedContent(token_list_control._tokens[1])

\* A content taken from the cache after contents of the other token list and
\* of the other width have been created in between.
C21_Witness ==
    /\ last.op = "token_list.create_content"
    /\ ~last.miss
    /\ Len(token_list_control._content_cache) >= 3
    /\ \E k \in 1 .. Len(token_list_control._content_cache) - 2 :
           token_list_control._content_cache[k].key =
               <<token_list_control._tokens[1], last.width>>

\* C22: a DummyControl is not focussable; its content indexed at 0, or at any
\* line number below its line count of 100 ** 100, gives an empty sequence; and
\* a content, the DummyControl's or the BufferControl's, indexed at its line
\* count or past it raises IndexError and get_line is not called.
C22_DummyAndIndexError ==
    /\ last.op = "dummy.is_focussable" => ~last.focussed
    /\ dummy_create_content.line_count = HundredToTheHundred
    /\ (last.op = "dummy.getitem" /\ last.lineno \in DummyBelow) =>
           (last.ret = "tokens" /\ last.line = <<>>)
    /\ (last.op = "dummy.getitem" /\ last.lineno \in DummyPast) =>
           (last.ret = "IndexError" /\ last.calls = 0)
    /\ (last.op = "getitem" /\ last.y >= content.line_count) =>
           (last.ret = "IndexError" /\ last.calls = 0 /\ content.lines[last.y] = {})

\* The content of a DummyControl indexed at its line count.
C22_Witness ==
    /\ last.op = "dummy.getitem"
    /\ last.lineno = dummy_create_content.line_count
    /\ last.ret = "IndexError"

\* The content of a one-line document indexed at 1.
C22_WitnessBufferControl ==
    /\ last.op = "getitem"
    /\ last.y = content.line_count
    /\ last.ret = "IndexError"

\* C23: on one content, get_height_for_line has called get_line at most once
\* for every line and width, and every call of it returns what
\* get_height_for_text gives for the text of that line at that width.
C23_HeightMemoized ==
    /\ \A key \in DOMAIN content.measured : content.measured[key] <= 1
    /\ last.op = "get_height_for_line" =>
           /\ content.lines[last.y] # {}
           /\ \A tokens \in content.lines[last.y] :
                  last.height = get_height_for_text(token_list_to_text(tokens), last.width)

\* A height asked for again, after the same line has been measured at
\* another width on the same content: get_line is not called.
C23_Witness ==
    /\ last.op = "get_height_for_line"
    /\ last.calls = 0
    /\ content.measured[<<last.y, last.width>>] = 1
    /\ \E key \in DOMAIN content.measured : key[1] = last.y /\ key[2] # last.width

\* C24: what the mouse handler of a focussed, rendered control resolves the
\* line of the event with is the closure of the latest create_content call,
\* made directly or by preferred_height: a line this closure has memoized
\* keeps its ProcessedLine and the transform chain is not run, a line it has
\* not is transformed once, and the offset of the event follows from the
\* ProcessedLine of this closure.
C24_ResolverOfLatestPass ==
    [][(last'.op = "mouse_handler" /\ last'.focussed /\ last'.rendered) =>
          LET y == last'.y
              before == _last_get_processed_line
              after == _last_get_processed_line'
          IN  /\ before.born = render /\ after.born = render
              /\ after.document = render.document /\ after.width = render.width
              /\ \A i \in Rows \ {y} :
                     after.cache[i] = before.cache[i] /\ after.calls[i] = before.calls[i]
              /\ before.cache[y] # None =>
                     after.cache[y] = before.cache[y] /\ after.calls[y] = before.calls[y]
              /\ before.cache[y] = None =>
                     after.cache[y] = input_processor /\ after.calls[y] = 1
              /\ last'.index =
                     translate_row_col_to_index(text, y, last'.x - after.cache[y])]_vars

\* An event on a line that the latest call, one with the document and width
\* of the call before it, memoized before the transform chain changed.
C24_Witness ==
    /\ Located
    /\ Resolver.born = render
    /\ render.same
    /\ Resolver.calls[last.y] = 1
    /\ Resolver.cache[last.y] # input_processor

\* The height of line i of the latest content at this width: of the
\* ProcessedLine its closure has memoized, or of the one the transform chain
\* yields now, and of the blank cell after it.
HeightOfLine(i, width) ==
    LET shift == IF Resolver.cache[i] # None THEN Resolver.cache[i] ELSE input_processor
        tokens == ProcessedLineTokens(render.document.text, i, shift) \o <<Blank>>
    IN  get_height_for_text(token_list_to_text(tokens), width)

\* The heights of the first n lines, summed.
RECURSIVE SumOfHeights(_, _)
SumOfHeights(n, width) ==
    IF n = 0 THEN BigOf(0)
    ELSE BigAdd(SumOfHeights(n - 1, width), HeightOfLine(n - 1, width))

\* C25: with wrap_lines, preferred_height returns the smaller one of
\* max_available_height and the sum of the heights of all lines at the width,
\* which is never more than max_available_height; without wrap_lines it
\* returns the line count, whatever max_available_height is.
C25_PreferredHeight ==
    last.op = "preferred_height" =>
        LET max_available_height == BigOf(last.x)
            sum == SumOfHeights(line_count(text), last.width)
        IN  IF last.ret = "wrapped"
            THEN /\ last.height = IF BigGeq(sum, max_available_height)
                                  THEN max_available_height ELSE sum
                 /\ BigGeq(max_available_height, last.height)
            ELSE last.height = BigOf(line_count(text))

\* A wrapped document whose lines need fewer rows than max_available_height:
\* the sum is returned.
C25_Witness ==
    /\ last.op = "preferred_height"
    /\ last.ret = "wrapped"
    /\ last.height = SumOfHeights(line_count(text), last.width)
    /\ last.height # BigOf(last.x)

\* Without wrapping, a line count above max_available_height is returned.
C25_WitnessUnwrapped ==
    /\ last.op = "preferred_height"
    /\ last.ret = "line_count"
    /\ last.height = BigOf(line_count(text))
    /\ line_count(text) > last.x

====
